---- MODULE Spec2Model ----
(***************************************************************************)
(* options-chain: the strike-significance selection of src/src/index.ts    *)
(* (filterStrikesByPercentage, filterSignificantStrikePrices) and the      *)
(* find-options-chain branch of the CallToolRequestSchema handler.         *)
(*                                                                         *)
(* TypeScript's `number` is an IEEE-754 binary64 value, and the selector's *)
(* comparisons depend on how its products and quotients round.  Numbers    *)
(* are therefore modelled as binary64 values: a sign, a 53-bit significand *)
(* and a binary exponent, with every arithmetic result rounded to nearest, *)
(* ties to even.  Significands exceed the checker's native integers, so    *)
(* they are kept as little-endian sequences of 15-bit limbs.  Subnormals   *)
(* and overflow are out of reach of the prices modelled and are left out.  *)
(* A number that arrives as decimal text (a JSON price, a literal of the   *)
(* source such as 0.01) is written Dec(n, d) for the decimal n/d and is    *)
(* converted to the nearest binary64 value.                                *)
(***************************************************************************)
EXTENDS Integers, Sequences, FiniteSets, TLC

(* ------------------------------------------------------------------ *)
(* Unsigned big integers: little-endian limbs, no leading zero limb.   *)
(* ------------------------------------------------------------------ *)
LimbBits == 15
Base == 2^LimbBits

\* F applied to the values of its arguments: the arguments are evaluated
\* once, before F's body uses them.
V1(arg1, F(_)) == CHOOSE res1 \in {F(val1) : val1 \in {arg1}} : TRUE
V2(arg1, arg2, F(_, _)) ==
    CHOOSE res2 \in {F(val1, val2) : val1 \in {arg1}, val2 \in {arg2}} : TRUE

RECURSIVE BNorm(_)
BNorm(a) ==
    IF a = <<>> THEN a
    ELSE IF a[Len(a)] = 0 THEN BNorm(SubSeq(a, 1, Len(a) - 1)) ELSE a

RECURSIVE BOfInt(_)
BOfInt(n) == IF n = 0 THEN <<>> ELSE <<n % Base>> \o BOfInt(n \div Base)

RECURSIVE BAddC(_, _, _)
BAddC(a, b, c) ==
    IF a = <<>> /\ b = <<>> THEN (IF c = 0 THEN <<>> ELSE <<c>>)
    ELSE LET x == IF a = <<>> THEN 0 ELSE Head(a)
             y == IF b = <<>> THEN 0 ELSE Head(b)
             s == x + y + c
         IN  <<s % Base>> \o BAddC(IF a = <<>> THEN a ELSE Tail(a),
                                   IF b = <<>> THEN b ELSE Tail(b),
                                   s \div Base)

BAdd(a, b) == V2(a, b, LAMBDA x, y : BAddC(x, y, 0))

RECURSIVE BSubC(_, _, _)
BSubC(a, b, c) ==
    IF a = <<>> THEN <<>>
    ELSE LET y == IF b = <<>> THEN 0 ELSE Head(b)
             s == Head(a) - y - c
         IN  <<IF s < 0 THEN s + Base ELSE s>>
                 \o BSubC(Tail(a), IF b = <<>> THEN b ELSE Tail(b),
                          IF s < 0 THEN 1 ELSE 0)

\* a - b for a >= b
BSub(a, b) == V2(a, b, LAMBDA x, y : BNorm(BSubC(x, y, 0)))

RECURSIVE BCmpAt(_, _, _)
BCmpAt(a, b, i) ==
    IF i = 0 THEN 0
    ELSE IF a[i] < b[i] THEN -1
    ELSE IF a[i] > b[i] THEN 1
    ELSE BCmpAt(a, b, i - 1)

\* -1, 0 or 1 as a < b, a = b, a > b
BCmp(a, b) ==
    V2(a, b, LAMBDA x, y :
        IF Len(x) < Len(y) THEN -1
        ELSE IF Len(x) > Len(y) THEN 1
        ELSE BCmpAt(x, y, Len(x)))

RECURSIVE BMulSmallC(_, _, _)
BMulSmallC(a, k, c) ==
    IF a = <<>> THEN (IF c = 0 THEN <<>> ELSE <<c>>)
    ELSE LET s == Head(a) * k + c
         IN  <<s % Base>> \o BMulSmallC(Tail(a), k, s \div Base)

\* a * k for a limb-sized k
BMulSmall(a, k) == V2(a, k, LAMBDA x, y : BNorm(BMulSmallC(x, y, 0)))

BShiftLimbs(a, n) ==
    V1(a, LAMBDA x : IF x = <<>> THEN x ELSE [i \in 1..n |-> 0] \o x)

RECURSIVE BMulAt(_, _, _)
BMulAt(a, b, i) ==
    IF i > Len(b) THEN <<>>
    ELSE BAdd(BMulSmall(a, b[i]), BShiftLimbs(BMulAt(a, b, i + 1), 1))

\* a * b
BMul(a, b) == V2(a, b, LAMBDA x, y : IF x = <<>> THEN x ELSE BMulAt(x, y, 1))

\* a * 2^n
BShl(a, n) == BShiftLimbs(BMulSmall(a, 2^(n % LimbBits)), n \div LimbBits)

RECURSIVE BDivSmallAt(_, _, _, _)
BDivSmallAt(a, d, i, r) ==
    IF i = 0 THEN <<>>
    ELSE LET cur == r * Base + a[i]
         IN  BDivSmallAt(a, d, i - 1, cur % d) \o <<cur \div d>>

\* floor(a / 2^n)
BShr(a, n) ==
    V2(a, n, LAMBDA x, k :
        V1(IF k \div LimbBits >= Len(x) THEN <<>>
           ELSE SubSeq(x, k \div LimbBits + 1, Len(x)),
           LAMBDA rest : BNorm(BDivSmallAt(rest, 2^(k % LimbBits), Len(rest), 0))))

RECURSIVE SmallBitLen(_)
SmallBitLen(x) == IF x = 0 THEN 0 ELSE 1 + SmallBitLen(x \div 2)

BitLen(a) ==
    V1(a, LAMBDA x :
        IF x = <<>> THEN 0 ELSE LimbBits * (Len(x) - 1) + SmallBitLen(x[Len(x)]))

BIsOdd(a) == a # <<>> /\ a[1] % 2 = 1

\* One step of binary long division by b: from quotient q and remainder
\* r (< b) to those of twice the dividend.
BDivStep(q, r, b) ==
    V1(BAdd(r, r), LAMBDA r2 :
        IF BCmp(r2, b) >= 0
        THEN [q |-> BAddC(q, q, 1), r |-> BSub(r2, b)]
        ELSE [q |-> BAdd(q, q), r |-> r2])

\* Long division continued over n further zero bits of the dividend: from
\* quotient q and remainder r (< b) to those of (dividend * 2^n) / b.  The
\* steps are taken eight at a time to keep the evaluation shallow.
RECURSIVE BDivZeros(_, _, _, _)
BDivZeros(q, r, b, n) ==
    IF n = 0 THEN [q |-> q, r |-> r]
    ELSE IF n > 8
    THEN V1(BDivZeros(q, r, b, 8), LAMBDA s : BDivZeros(s.q, s.r, b, n - 8))
    ELSE V1(BDivStep(q, r, b), LAMBDA s : BDivZeros(s.q, s.r, b, n - 1))

(* ------------------------------------------------------------------ *)
(* binary64 values                                                      *)
(* ------------------------------------------------------------------ *)
MantBits == 53

NaN == [k |-> "nan"]
Inf(neg) == [k |-> "inf", neg |-> neg]
Zero == [k |-> "fin", neg |-> FALSE, m |-> <<>>, e |-> 0]
Fin(neg, m, e) == [k |-> "fin", neg |-> neg, m |-> m, e |-> e]

IsZero(a) == a.k = "fin" /\ a.m = <<>>

\* The number of zero bits at the low end of a nonzero a.
RECURSIVE SmallTrailingZeros(_)
SmallTrailingZeros(x) == IF x % 2 = 1 THEN 0 ELSE 1 + SmallTrailingZeros(x \div 2)

RECURSIVE TrailingZerosAt(_, _)
TrailingZerosAt(a, i) ==
    IF a[i] = 0 THEN LimbBits + TrailingZerosAt(a, i + 1)
    ELSE SmallTrailingZeros(a[i])

\* The one record that stands for (-1)^neg * m * 2^e, for a nonzero m of at
\* most MantBits bits: an integer below 2^MantBits has exponent 0, a fraction
\* has an odd significand, a larger value a significand of MantBits bits.
\* The significand is shifted left by up (or right by -up) to get there.
Canon(neg, m, e) ==
    V2(m, BitLen(m), LAMBDA mv, len :
        V1(IF e >= 0 THEN (IF len + e <= MantBits THEN e ELSE MantBits - len)
           ELSE V1(TrailingZerosAt(mv, 1), LAMBDA tz : IF tz < -e THEN -tz ELSE e),
           LAMBDA up :
               Fin(neg, IF up >= 0 THEN BShl(mv, up) ELSE BShr(mv, -up), e - up)))

\* The leading MantBits bits q of a significand mv of len > MantBits bits,
\* rounded to nearest, ties to even: c compares the bits cut off with half a
\* unit of q's last place, sticky tells of a nonzero tail below mv.
RoundUp(q, c, sticky) ==
    IF c > 0 \/ (c = 0 /\ (sticky \/ BIsOdd(q))) THEN BAddC(q, <<>>, 1) ELSE q

Rounded(mv, len, e, sticky) ==
    V1(BShr(mv, len - MantBits), LAMBDA q :
        V1(RoundUp(q, BCmp(BSub(mv, BShl(q, len - MantBits)),
                           BShl(<<1>>, len - MantBits - 1)), sticky),
           LAMBDA q2 :
               IF BitLen(q2) > MantBits
               THEN [m |-> BShr(q2, 1), e |-> e + (len - MantBits) + 1]
               ELSE [m |-> q2, e |-> e + (len - MantBits)]))

\* (-1)^neg * m * 2^e (plus a nonzero tail below the last bit of m when
\* sticky), rounded to nearest, ties to even.
RoundPack(neg, m, e, sticky) ==
    V2(m, BitLen(m), LAMBDA mv, len :
        IF mv = <<>> THEN Zero
        ELSE V1(IF len <= MantBits THEN [m |-> mv, e |-> e]
                ELSE Rounded(mv, len, e, sticky),
                LAMBDA r : Canon(neg, r.m, r.e)))

\* A finite nonzero value with its significand widened to MantBits bits.
Widen(x) ==
    V1(MantBits - BitLen(x.m), LAMBDA sh : Fin(x.neg, BShl(x.m, sh), x.e - sh))

\* An integer from 1 to 2^LimbBits - 1: its significand is a single limb.
Whole(n) == [k |-> "fin", neg |-> FALSE, m |-> <<n>>, e |-> 0]

\* The integer n (|n| below 2^31), exactly.
Int2F(n) == Fin(n < 0, BOfInt(IF n < 0 THEN -n ELSE n), 0)

FNeg(a) ==
    V1(a, LAMBDA x : IF x.k = "nan" \/ IsZero(x) THEN x
                     ELSE [x EXCEPT !.neg = ~x.neg])

\* Math.abs
FAbs(a) ==
    V1(a, LAMBDA x : IF x.k = "nan" \/ IsZero(x) THEN x
                     ELSE [x EXCEPT !.neg = FALSE])

\* The sum of two finite nonzero values whose significands ma, mb are
\* aligned at exponent e: the sign and the magnitude first, then the rounding.
AddAligned(nega, ma, negb, mb, e) ==
    V1(IF nega = negb THEN [neg |-> nega, m |-> BAdd(ma, mb)]
       ELSE V1(BCmp(ma, mb), LAMBDA c :
                IF c >= 0 THEN [neg |-> nega, m |-> BSub(ma, mb)]
                ELSE [neg |-> negb, m |-> BSub(mb, ma)]),
       LAMBDA r : RoundPack(r.m # <<>> /\ r.neg, r.m, e, FALSE))

\* a + b
FAdd(a, b) ==
    V2(a, b, LAMBDA x, y :
        IF x.k = "nan" \/ y.k = "nan" THEN NaN
        ELSE IF x.k = "inf" THEN (IF y.k = "inf" /\ y.neg # x.neg THEN NaN ELSE x)
        ELSE IF y.k = "inf" THEN y
        ELSE IF IsZero(x) THEN y
        ELSE IF IsZero(y) THEN x
        ELSE V1(IF x.e < y.e THEN x.e ELSE y.e, LAMBDA e :
                V2(BShl(x.m, x.e - e), BShl(y.m, y.e - e), LAMBDA ma, mb :
                    AddAligned(x.neg, ma, y.neg, mb, e))))

\* a - b
FSub(a, b) == FAdd(a, FNeg(b))

\* a * b
FMul(a, b) ==
    V2(a, b, LAMBDA x, y :
        IF x.k = "nan" \/ y.k = "nan" THEN NaN
        ELSE IF x.k = "inf" \/ y.k = "inf"
        THEN (IF IsZero(x) \/ IsZero(y) THEN NaN ELSE Inf(x.neg # y.neg))
        ELSE IF IsZero(x) \/ IsZero(y) THEN Zero
        ELSE RoundPack(x.neg # y.neg, BMul(x.m, y.m), x.e + y.e, FALSE))

\* The first step of the long division of significand ma by mb (both of
\* MantBits bits, so the quotient is 0 or 1).
DivFirst(ma, mb) ==
    IF BCmp(ma, mb) >= 0 THEN [q |-> <<1>>, r |-> BSub(ma, mb)]
    ELSE [q |-> <<>>, r |-> ma]

\* a / b
FDiv(a, b) ==
    V2(a, b, LAMBDA x, y :
        IF x.k = "nan" \/ y.k = "nan" THEN NaN
        ELSE IF x.k = "inf" THEN (IF y.k = "inf" THEN NaN ELSE Inf(x.neg # y.neg))
        ELSE IF y.k = "inf" THEN Zero
        ELSE IF IsZero(y) THEN (IF IsZero(x) THEN NaN ELSE Inf(x.neg # y.neg))
        ELSE IF IsZero(x) THEN Zero
        ELSE V2(Widen(x), Widen(y), LAMBDA wx, wy :
                V1(DivFirst(wx.m, wy.m), LAMBDA f :
                    V1(BDivZeros(f.q, f.r, wy.m, MantBits + 2), LAMBDA d :
                        RoundPack(x.neg # y.neg, d.q, wx.e - wy.e - (MantBits + 2),
                                  d.r # <<>>)))))

\* a % b of JavaScript for a finite b > 0: the remainder of the truncated
\* quotient, which is exact and has the sign of a.
FMod(a, b) ==
    V2(a, b, LAMBDA x, y :
        IF x.k # "fin" \/ y.k # "fin" \/ IsZero(y) THEN NaN
        ELSE IF IsZero(x) THEN x
        ELSE V2(Widen(x), Widen(y), LAMBDA wx, wy :
                IF wx.e < wy.e THEN x
                ELSE V1(DivFirst(wx.m, wy.m), LAMBDA f :
                        V1(BDivZeros(f.q, f.r, wy.m, wx.e - wy.e), LAMBDA d :
                            RoundPack(x.neg, d.r, wy.e, FALSE)))))

\* The sign of a value that is not NaN: -1, 0 or 1.
Sign(x) == IF IsZero(x) THEN 0 ELSE IF x.neg THEN -1 ELSE 1

\* The magnitudes of two nonzero values compared: -1, 0 or 1.
MagCmp(x, y) ==
    IF x.k = "inf" THEN (IF y.k = "inf" THEN 0 ELSE 1)
    ELSE IF y.k = "inf" THEN -1
    ELSE V2(Widen(x), Widen(y), LAMBDA wx, wy :
            IF wx.e # wy.e THEN (IF wx.e < wy.e THEN -1 ELSE 1)
            ELSE BCmp(wx.m, wy.m))

\* -1, 0 or 1 as a < b, a = b, a > b, for values that are not NaN
FCmp(a, b) ==
    V2(a, b, LAMBDA x, y :
        V2(Sign(x), Sign(y), LAMBDA sx, sy :
            IF sx # sy THEN (IF sx < sy THEN -1 ELSE 1)
            ELSE IF sx = 0 THEN 0
            ELSE sx * MagCmp(x, y)))

\* The comparison operators of JavaScript: false when either side is NaN.
FLe(a, b) == a.k # "nan" /\ b.k # "nan" /\ FCmp(a, b) <= 0
FLt(a, b) == a.k # "nan" /\ b.k # "nan" /\ FCmp(a, b) < 0
FGe(a, b) == FLe(b, a)
FGt(a, b) == FLt(b, a)

\* Number.isInteger: a fraction has a negative exponent (Canon).
FIsInteger(a) ==
    V1(a, LAMBDA x :
        x.k = "fin" /\ x.e >= 0)

\* The decimal n/d as JavaScript reads it: the nearest binary64 value.
Dec(n, d) == FDiv(Int2F(n), Int2F(d))

\* A value that is absent: a missing argument or JSON field.
undefined == [k |-> "undefined"]

(* ------------------------------------------------------------------ *)
(* The numbers of the model                                             *)
(* ------------------------------------------------------------------ *)
\* A price, strike or percentage written in hundredths (55600 is 556.00).
Num(c) == Dec(c, 100)

\* The numeric literals of the source.
n0 == Zero
n1 == Whole(1)
n2 == Whole(2)
n5 == Whole(5)
n10 == Whole(10)
n20 == Whole(20)
n25 == Whole(25)
n50 == Whole(50)
n100 == Whole(100)
n500 == Whole(500)
n0_01 == FDiv(Whole(1), Whole(100))
n0_1 == FDiv(Whole(1), Whole(10))
n1_99 == FDiv(Whole(199), Whole(100))
n4_99 == FDiv(Whole(499), Whole(100))
n9_99 == FDiv(Whole(999), Whole(100))
n24_99 == FDiv(Whole(2499), Whole(100))
n49_99 == FDiv(Whole(4999), Whole(100))

\* Underlying prices, in hundredths: 20, 50 and 100 (the band up to 100,
\* with its upper end), 150, 300 and 500 (the band up to 500, with its upper
\* end), 556 and 1000 (the band above 500), and 0 (a quote without a last
\* price).
PriceCents == {0, 2000, 5000, 10000, 15000, 30000, 50000, 55600, 100000}

\* The strikes offered under each underlying price, in hundredths: for every
\* distance tier one strike that passes its rounding test and one that fails
\* it, the strikes at exactly 2, 5, 10 and 20 percent, and the ends of the
\* strike range.
StrikeCents ==
    [c \in PriceCents |->
        CASE c = 0      -> {0, 40000, 50000, 54300, 54400, 54500, 55600}
          [] c = 2000   -> {0, 2000, 2050, 2100, 2150, 2200, 2400, 3000}
          [] c = 5000   -> {5050, 5100, 5150, 5200, 5300, 5750, 6000, 6500}
          [] c = 10000  -> {10200, 10500, 10700, 10750, 11000, 11500, 12500, 13000}
          [] c = 15000  -> {15300, 15600, 15800, 16000, 16500, 17500, 18000, 22500}
          [] c = 30000  -> {28500, 30000, 31000, 31500, 34000, 37500, 39000}
          [] c = 50000  -> {37500, 50500, 51000, 55000, 60000, 61000, 62500, 65000}
          [] c = 55600  -> {0, 40000, 50000, 50040, 52500, 52600, 54300, 54400,
                            54500, 55600, 61160}
          [] c = 100000 -> {101999, 103001, 103002, 103199, 106000, 106100,
                            115000, 115500, 130000, 132500}]

\* Percentages, in hundredths.
PercentCents == {0, 1000, 2000, 10000}

\* Bids and asks, in hundredths: 0.10 itself, and values on both sides of it.
QuoteCents == {10, 11, 12, 15, 50, 60, 100, 110, 200, 210, 1250, 1270}

AllCents ==
    PriceCents \cup PercentCents \cup QuoteCents
        \cup UNION {StrikeCents[c] : c \in PriceCents}

\* Each decimal of the model read as a number, once.
NumOf == CHOOSE g \in {[c \in AllCents |-> Num(c)]} : g = g

Prices == {NumOf[c] : c \in PriceCents}
Percentages == {NumOf[c] : c \in PercentCents}
StrikesFor ==
    CHOOSE g \in {[P \in Prices |->
        {NumOf[s] : s \in StrikeCents[CHOOSE c \in PriceCents : NumOf[c] = P]}]} : g = g

\* A function computed once and kept as a table of its values.
Table(f) == CHOOSE g \in {f} : g = g

\* The inputs of testSignificantStrikePrices: underlying price 556,
\* percentage 10 and the strikes 500, 501, ... 610.
TestFirst == 500
TestLast == 610
TestPrice == Int2F(556)
TestPercentage == n10
TestStrikes == Table([n \in TestFirst..TestLast |-> Int2F(n)])

\* The strikes a call with a given underlying price may be given.
KnownStrikes ==
    Table([P \in Prices |->
        IF P = TestPrice
        THEN StrikesFor[P] \cup {TestStrikes[n] : n \in DOMAIN TestStrikes}
        ELSE StrikesFor[P]])

(* ------------------------------------------------------------------ *)
(* filterStrikesByPercentage, filterSignificantStrikePrices              *)
(* ------------------------------------------------------------------ *)
\* A variant with the two factors exchanged.
filterStrikesByPercentage_swapped(underlyingPrice, percentage) ==
    [lowerBound |-> FMul(underlyingPrice, FAdd(n1, FDiv(percentage, n100))),
     upperBound |-> FMul(underlyingPrice, FSub(n1, FDiv(percentage, n100)))]

filterStrikesByPercentage(underlyingPrice, percentage) ==
    [lowerBound |-> FMul(underlyingPrice, FSub(n1, FDiv(percentage, n100))),
     upperBound |-> FMul(underlyingPrice, FAdd(n1, FDiv(percentage, n100)))]

\* A variant that leaves the distance a fraction instead of a percentage.
distance_unscaled(strike, underlyingPrice) ==
    FAbs(FDiv(FSub(strike, underlyingPrice), underlyingPrice))

\* Math.abs((strike - underlyingPrice) / underlyingPrice) * 100
distance(strike, underlyingPrice) ==
    FMul(FAbs(FDiv(FSub(strike, underlyingPrice), underlyingPrice)), n100)

\* strike % n < 0.01 || strike % n > hi, hi being the literal for n - 0.01
nearMultiple(strike, n, hi) ==
    V1(FMod(strike, n), LAMBDA rest : FLt(rest, n0_01) \/ FGt(rest, hi))

\* A variant whose tiers end below their upper distance and whose price
\* bands begin at 100 and 500.
isSignificant_exclusive(strike, dist, underlyingPrice) ==
    IF FLt(dist, n2) THEN TRUE
    ELSE IF FLt(dist, n5) THEN nearMultiple(strike, n2, n1_99)
    ELSE IF FLt(dist, n10)
    THEN (IF FGe(underlyingPrice, n100) THEN nearMultiple(strike, n5, n4_99)
          ELSE FIsInteger(strike))
    ELSE IF FLt(dist, n20)
    THEN (IF FGe(underlyingPrice, n100) THEN nearMultiple(strike, n10, n9_99)
          ELSE nearMultiple(strike, n5, n4_99))
    ELSE IF FGe(underlyingPrice, n500) THEN nearMultiple(strike, n50, n49_99)
    ELSE IF FGe(underlyingPrice, n100) THEN nearMultiple(strike, n25, n24_99)
    ELSE nearMultiple(strike, n10, n9_99)

\* A variant that applies the rounding tests of the band above 100 to every
\* underlying price.
isSignificant_oneBand(strike, dist, underlyingPrice) ==
    IF FLe(dist, n2) THEN TRUE
    ELSE IF FLe(dist, n5) THEN nearMultiple(strike, n2, n1_99)
    ELSE IF FLe(dist, n10) THEN nearMultiple(strike, n5, n4_99)
    ELSE IF FLe(dist, n20) THEN nearMultiple(strike, n10, n9_99)
    ELSE IF FGt(underlyingPrice, n500) THEN nearMultiple(strike, n50, n49_99)
    ELSE nearMultiple(strike, n25, n24_99)

\* The second filter callback: the rounding test of the strike's tier.
isSignificant(strike, dist, underlyingPrice) ==
    IF FLe(dist, n2) THEN TRUE
    ELSE IF FLe(dist, n5) THEN nearMultiple(strike, n2, n1_99)
    ELSE IF FLe(dist, n10)
    THEN (IF FGt(underlyingPrice, n100) THEN nearMultiple(strike, n5, n4_99)
          ELSE FIsInteger(strike))
    ELSE IF FLe(dist, n20)
    THEN (IF FGt(underlyingPrice, n100) THEN nearMultiple(strike, n10, n9_99)
          ELSE nearMultiple(strike, n5, n4_99))
    ELSE IF FGt(underlyingPrice, n500) THEN nearMultiple(strike, n50, n49_99)
    ELSE IF FGt(underlyingPrice, n100) THEN nearMultiple(strike, n25, n24_99)
    ELSE nearMultiple(strike, n10, n9_99)

\* A variant that tests the lower bound only.
inBounds_lowerOnly(strike, bounds) == FGe(strike, bounds.lowerBound)

\* The first filter callback: strike >= lowerBound && strike <= upperBound
inBounds(strike, bounds) ==
    FGe(strike, bounds.lowerBound) /\ FLe(strike, bounds.upperBound)

\* The three functions above, each computed once for the numbers of the
\* model.
boundsOf ==
    Table([P \in Prices |->
        Table([R \in Percentages |-> filterStrikesByPercentage(P, R)])])
distanceOf ==
    Table([P \in Prices |-> Table([s \in KnownStrikes[P] |-> distance(s, P)])])
significantOf ==
    Table([P \in Prices |->
        Table([s \in KnownStrikes[P] |-> isSignificant(s, distanceOf[P][s], P)])])

\* A variant that reverses the list instead of sorting it.
sortAscending_reversed(strikePrices) ==
    [r \in 1..Len(strikePrices) |-> strikePrices[Len(strikePrices) + 1 - r]]

\* [...strikePrices].sort((a, b) => a - b): the element of rank r is the one
\* with r - 1 elements before it, equal elements keeping their order.
sortAscending(strikePrices) ==
    [r \in 1..Len(strikePrices) |->
        strikePrices[CHOOSE i \in 1..Len(strikePrices) :
            Cardinality({j \in 1..Len(strikePrices) :
                \/ FLt(strikePrices[j], strikePrices[i])
                \/ (~FLt(strikePrices[i], strikePrices[j]) /\ j < i)}) = r - 1]]

\* sortedStrikes.map(strike => ({strike, distance}))
withDistance(sortedStrikes, underlyingPrice) ==
    [i \in 1..Len(sortedStrikes) |->
        [strike |-> sortedStrikes[i],
         distance |-> distanceOf[underlyingPrice][sortedStrikes[i]]]]

\* A variant that returns the distances in place of the strikes.
strikesOf_distances(kept) == [i \in 1..Len(kept) |-> kept[i].distance]

\* .map(({strike}) => strike)
strikesOf(kept) == [i \in 1..Len(kept) |-> kept[i].strike]

\* A variant that keeps the strikes outside the bounds.
keepInBounds_outside(strikesWithDistance, bounds) ==
    SelectSeq(strikesWithDistance, LAMBDA x : ~inBounds(x.strike, bounds))

\* .filter(({strike}) => strike >= lowerBound && strike <= upperBound)
keepInBounds(strikesWithDistance, bounds) ==
    SelectSeq(strikesWithDistance, LAMBDA x : inBounds(x.strike, bounds))

\* .filter(({strike, distance}) => ...): the rounding test, read from the
\* table
keepSignificant(strikesWithDistance, underlyingPrice) ==
    SelectSeq(strikesWithDistance,
              LAMBDA x : significantOf[underlyingPrice][x.strike])

filterSignificantStrikePrices(underlyingPrice, percentage, strikePrices) ==
    strikesOf(keepSignificant(
        keepInBounds(withDistance(sortAscending(strikePrices), underlyingPrice),
                     boundsOf[underlyingPrice][percentage]),
        underlyingPrice))

(* ------------------------------------------------------------------ *)
(* The find-options-chain request handler                               *)
(* ------------------------------------------------------------------ *)
\* (value as number) || 0
orZero(value) ==
    IF value = undefined \/ value = NaN \/ IsZero(value) THEN n0 ELSE value

MathMin(x, y) == IF x = NaN \/ y = NaN THEN NaN ELSE IF FLt(y, x) THEN y ELSE x

MathMax(x, y) == IF x = NaN \/ y = NaN THEN NaN ELSE IF FGt(y, x) THEN y ELSE x

\* The contracts an upstream chain response is made of. The fields the
\* handler copies without reading them are left out.
Catalog ==
    {[symbol |-> "C545", option_type |-> "call", volume |-> Whole(10),
      bid |-> NumOf[1250], ask |-> NumOf[1270], strike |-> NumOf[54500]],
     [symbol |-> "P545", option_type |-> "put", volume |-> Whole(5),
      bid |-> NumOf[10], ask |-> NumOf[15], strike |-> NumOf[54500]],
     [symbol |-> "C543", option_type |-> "call", volume |-> Whole(3),
      bid |-> NumOf[100], ask |-> NumOf[110], strike |-> NumOf[54300]],
     [symbol |-> "P500", option_type |-> "put", volume |-> Whole(7),
      bid |-> NumOf[11], ask |-> NumOf[12], strike |-> NumOf[50000]],
     [symbol |-> "C500", option_type |-> "call", volume |-> n0,
      bid |-> NumOf[200], ask |-> NumOf[210], strike |-> NumOf[50000]],
     [symbol |-> "P556", option_type |-> "put", volume |-> Whole(1),
      bid |-> NumOf[50], ask |-> NumOf[10], strike |-> NumOf[55600]],
     [symbol |-> "C400", option_type |-> "call", volume |-> Whole(2),
      bid |-> NumOf[50], ask |-> NumOf[60], strike |-> NumOf[40000]],
     [symbol |-> "P544", option_type |-> "put", volume |-> undefined,
      bid |-> NumOf[50], ask |-> NumOf[60], strike |-> NumOf[54400]],
     [symbol |-> "C0", option_type |-> "call", volume |-> Whole(4),
      bid |-> NumOf[50], ask |-> NumOf[60], strike |-> undefined]}

\* The arguments of a request: option_type and strike_percentage are
\* optional.
OptionTypes == {"undefined", "call", "put", "both"}
StrikePercentages == {undefined, FNeg(Whole(5)), n0, n10, n20, Whole(150)}

\* The last price of the upstream quote, when the quote has one.
LastPrices == {undefined, NumOf[55600]}

\* The default the tool's input schema advertises for strike_percentage.
SchemaDefault == n10

\* The callback of rawOptions.map: the fields of OptionData, a number that
\* is absent or zero becoming 0.
mapOption(rawOption) ==
    [symbol |-> rawOption.symbol,
     option_type |-> rawOption.option_type,
     volume |-> orZero(rawOption.volume),
     bid |-> orZero(rawOption.bid),
     ask |-> orZero(rawOption.ask),
     strike |-> orZero(rawOption.strike)]

\* A variant that admits a bid or an ask of exactly 0.1.
passesQuality_inclusive(option, option_type) ==
    IF option_type = "call" /\ option.option_type # "call" THEN FALSE
    ELSE IF option_type = "put" /\ option.option_type # "put" THEN FALSE
    ELSE FGt(option.volume, n0) /\ FGe(option.bid, n0_1) /\ FGe(option.ask, n0_1)

\* The callback of mappedOptions.filter.
passesQuality(option, option_type) ==
    IF option_type = "call" /\ option.option_type # "call" THEN FALSE
    ELSE IF option_type = "put" /\ option.option_type # "put" THEN FALSE
    ELSE FGt(option.volume, n0) /\ FGt(option.bid, n0_1) /\ FGt(option.ask, n0_1)

\* A variant whose default is the one the input schema advertises.
effectivePercentage_schema(strike_percentage) ==
    IF strike_percentage # undefined
    THEN MathMax(n0, MathMin(n100, strike_percentage))
    ELSE SchemaDefault

\* const strikePercentage = params.strike_percentage !== undefined ? ... : 20
effectivePercentage(strike_percentage) ==
    IF strike_percentage # undefined
    THEN MathMax(n0, MathMin(n100, strike_percentage))
    ELSE n20

\* A variant that takes the strikes without looking at them.
includes_any(strikes, strike) == TRUE

\* significantStrikes.includes(option.strike)
includes(strikes, strike) == \E i \in DOMAIN strikes : strikes[i] = strike

\* What the handler has returned when it has returned nothing.
NoResponse == [none |-> TRUE]

(* ------------------------------------------------------------------ *)
(* State                                                                *)
(* ------------------------------------------------------------------ *)
MaxStrikes == 2
MaxOptions == 2

VARIABLES
    step,           \* position of the caller of filterSignificantStrikePrices
    argPrice,       \* the arguments it passes
    argPercentage,
    argStrikes,
    retBounds,      \* what filterStrikesByPercentage returned
    retStrikes,     \* what filterSignificantStrikePrices returned
    retAgain,       \* what it returned when given retStrikes
    widerPercentage, \* a percentage no smaller than the one passed
    retWider,       \* what it returned when given widerPercentage
    testIndex,      \* the i of the loop of testSignificantStrikePrices
    pc,             \* position of the find-options-chain handler
    token,          \* whether process.env.token is set
    params,         \* request.params.arguments
    fetches,        \* the upstream calls issued so far, in order
    quoteResponse,  \* status of the quote response: "none", "ok" or "error"
    chainResponse,  \* status of the chain response
    quoteLast,      \* quoteArray[0]?.last, undefined when there is none
    currentPrice,
    rawOptions,
    qualityFilteredOptions,
    strikePercentage,
    allStrikes,
    significantStrikes,
    responseData,   \* the payload returned to the caller
    thrown          \* the error the handler threw, "" when none

selectVars ==
    <<step, argPrice, argPercentage, argStrikes, retBounds, retStrikes, retAgain,
      widerPercentage, retWider, testIndex>>

fetchVars == <<fetches, quoteResponse, chainResponse>>

filterVars ==
    <<rawOptions, qualityFilteredOptions, strikePercentage, allStrikes,
      significantStrikes, responseData>>

handlerVars ==
    <<pc, token, params, fetchVars, quoteLast, currentPrice, filterVars, thrown>>

vars == <<selectVars, handlerVars>>

\* No call of filterSignificantStrikePrices under way.
SelectIdle ==
    /\ step = "input"
    /\ argStrikes = <<>>
    /\ retBounds = [lowerBound |-> n0, upperBound |-> n0]
    /\ retStrikes = <<>>
    /\ retAgain = <<>>
    /\ widerPercentage = n0
    /\ retWider = <<>>
    /\ testIndex = TestFirst

\* No request received yet.
HandlerIdle ==
    /\ pc = "idle"
    /\ params = [option_type |-> "undefined", strike_percentage |-> undefined]
    /\ fetches = <<>>
    /\ quoteResponse = "none"
    /\ chainResponse = "none"
    /\ quoteLast = undefined
    /\ currentPrice = n0
    /\ rawOptions = <<>>
    /\ qualityFilteredOptions = <<>>
    /\ strikePercentage = n0
    /\ allStrikes = <<>>
    /\ significantStrikes = <<>>
    /\ responseData = NoResponse
    /\ thrown = ""

(* ------------------------------------------------------------------ *)
(* The strike filters called on their own                               *)
(* ------------------------------------------------------------------ *)
SelectInit ==
    /\ SelectIdle
    /\ argPrice \in Prices \ {n0}
    /\ argPercentage \in Percentages
    /\ HandlerIdle
    /\ token = TRUE

\* strikePrices.push(i)
PushStrike ==
    /\ step = "input"
    /\ Len(argStrikes) < MaxStrikes
    /\ \E strike \in StrikesFor[argPrice] :
           argStrikes' = Append(argStrikes, strike)
    /\ UNCHANGED <<step, argPrice, argPercentage, retBounds, retStrikes, retAgain,
                   widerPercentage, retWider, testIndex>>
    /\ UNCHANGED handlerVars

\* filterSignificantStrikePrices(strikePrices, underlyingPrice, percentage)
CallFilter ==
    /\ step = "input"
    /\ retBounds' = boundsOf[argPrice][argPercentage]
    /\ retStrikes' = filterSignificantStrikePrices(argPrice, argPercentage, argStrikes)
    /\ step' = "filtered"
    /\ UNCHANGED <<argPrice, argPercentage, argStrikes, retAgain,
                   widerPercentage, retWider, testIndex>>
    /\ UNCHANGED handlerVars

\* The same call on the strikes it returned.
CallFilterAgain ==
    /\ step = "filtered"
    /\ retAgain' = filterSignificantStrikePrices(argPrice, argPercentage, retStrikes)
    /\ step' = "refiltered"
    /\ UNCHANGED <<argPrice, argPercentage, argStrikes, retBounds, retStrikes,
                   widerPercentage, retWider, testIndex>>
    /\ UNCHANGED handlerVars

\* The same call on the same strikes with a percentage that is no smaller.
CallFilterWider ==
    /\ step = "filtered"
    /\ \E wider \in Percentages :
           /\ FLe(argPercentage, wider)
           /\ widerPercentage' = wider
           /\ retWider' = filterSignificantStrikePrices(argPrice, wider, argStrikes)
    /\ step' = "widened"
    /\ UNCHANGED <<argPrice, argPercentage, argStrikes, retBounds, retStrikes,
                   retAgain, testIndex>>
    /\ UNCHANGED handlerVars

SelectNext == PushStrike \/ CallFilter \/ CallFilterAgain \/ CallFilterWider

SpecSelect == SelectInit /\ [][SelectNext]_vars

(* ------------------------------------------------------------------ *)
(* testSignificantStrikePrices                                          *)
(* ------------------------------------------------------------------ *)
TestInit ==
    /\ SelectIdle
    /\ argPrice = TestPrice
    /\ argPercentage = TestPercentage
    /\ HandlerIdle
    /\ token = TRUE

\* for (let i = 500; i <= 610; i++) strikePrices.push(i)
TestPush ==
    /\ step = "input"
    /\ testIndex <= TestLast
    /\ argStrikes' = Append(argStrikes, TestStrikes[testIndex])
    /\ testIndex' = testIndex + 1
    /\ UNCHANGED <<step, argPrice, argPercentage, retBounds, retStrikes, retAgain,
                   widerPercentage, retWider>>
    /\ UNCHANGED handlerVars

\* The loop has ended: filterSignificantStrikePrices is called.
TestCall ==
    /\ step = "input"
    /\ testIndex > TestLast
    /\ retBounds' = boundsOf[argPrice][argPercentage]
    /\ retStrikes' = filterSignificantStrikePrices(argPrice, argPercentage, argStrikes)
    /\ step' = "tested"
    /\ UNCHANGED <<argPrice, argPercentage, argStrikes, retAgain,
                   widerPercentage, retWider, testIndex>>
    /\ UNCHANGED handlerVars

TestNext == TestPush \/ TestCall

SpecTest == TestInit /\ [][TestNext]_vars

(* ------------------------------------------------------------------ *)
(* One find-options-chain request                                       *)
(* ------------------------------------------------------------------ *)
Init ==
    /\ HandlerIdle
    /\ token \in BOOLEAN
    /\ SelectIdle
    /\ argPrice = n0
    /\ argPercentage = n0

\* The request arrives and process.env.token is not set: the handler throws.
RejectWithoutToken ==
    /\ pc = "idle"
    /\ ~token
    /\ \E option_type \in OptionTypes, strike_percentage \in StrikePercentages :
           params' = [option_type |-> option_type,
                      strike_percentage |-> strike_percentage]
    /\ pc' = "failed"
    /\ thrown' = "API token is missing"
    /\ UNCHANGED <<token, fetchVars, quoteLast, currentPrice, filterVars,
                   selectVars>>

\* A variant that issues the quote fetch and the chain fetch together.
FetchQuote_parallel ==
    /\ pc = "idle"
    /\ token
    /\ \E option_type \in OptionTypes, strike_percentage \in StrikePercentages :
           params' = [option_type |-> option_type,
                      strike_percentage |-> strike_percentage]
    /\ fetches' = fetches \o <<"quote", "chain">>
    /\ pc' = "awaitQuote"
    /\ UNCHANGED <<token, quoteResponse, chainResponse, quoteLast, currentPrice,
                   filterVars, thrown, selectVars>>

\* The request arrives and the handler issues the quote fetch.
FetchQuote ==
    /\ pc = "idle"
    /\ token
    /\ \E option_type \in OptionTypes, strike_percentage \in StrikePercentages :
           params' = [option_type |-> option_type,
                      strike_percentage |-> strike_percentage]
    /\ fetches' = Append(fetches, "quote")
    /\ pc' = "awaitQuote"
    /\ UNCHANGED <<token, quoteResponse, chainResponse, quoteLast, currentPrice,
                   filterVars, thrown, selectVars>>

\* A variant that logs the failed quote, takes the price as 0 and goes on.
QuoteFailed_ignored ==
    /\ pc = "awaitQuote"
    /\ quoteResponse' = "error"
    /\ currentPrice' = n0
    /\ fetches' = Append(fetches, "chain")
    /\ pc' = "awaitChain"
    /\ UNCHANGED <<token, params, chainResponse, quoteLast, filterVars, thrown, selectVars>>

\* !quoteResponse.ok: the handler throws.
QuoteFailed ==
    /\ pc = "awaitQuote"
    /\ quoteResponse' = "error"
    /\ pc' = "failed"
    /\ thrown' = "Failed to fetch quote"
    /\ UNCHANGED <<token, params, fetches, chainResponse, quoteLast, currentPrice,
                   filterVars, selectVars>>

\* The quote arrives: the handler reads the last price and issues the chain
\* fetch.
QuoteReturned ==
    /\ pc = "awaitQuote"
    /\ quoteResponse' = "ok"
    /\ quoteLast' \in LastPrices
    /\ currentPrice' = orZero(quoteLast')
    /\ fetches' = Append(fetches, "chain")
    /\ pc' = "awaitChain"
    /\ UNCHANGED <<token, params, chainResponse, filterVars, thrown, selectVars>>

\* !chainResponse.ok: the handler throws.
ChainFailed ==
    /\ pc = "awaitChain"
    /\ chainResponse' = "error"
    /\ pc' = "failed"
    /\ thrown' = "Failed to fetch options chain"
    /\ UNCHANGED <<token, params, fetches, quoteResponse, quoteLast, currentPrice,
                   filterVars, selectVars>>

\* The lists of at most MaxOptions contracts.
RECURSIVE Chains(_)
Chains(n) ==
    IF n = 0 THEN {<<>>}
    ELSE Chains(n - 1)
            \cup {Append(chain, rawOption) :
                    chain \in {c \in Chains(n - 1) : Len(c) = n - 1},
                    rawOption \in Catalog}

\* The contracts of a list whose strike is one of the given strikes.
withStrikeIn(options, strikes) ==
    SelectSeq(options, LAMBDA option : includes(strikes, option.strike))

\* rawOptions.map(...) and mappedOptions.filter(...)
qualityFilter(options, option_type) ==
    SelectSeq([i \in 1..Len(options) |-> mapOption(options[i])],
              LAMBDA option : passesQuality(option, option_type))

\* qualityFilteredOptions.map(option => option.strike)
strikeList(options) == [i \in 1..Len(options) |-> options[i].strike]

\* The chain arrives: the handler maps, filters and returns it.
ChainReturned ==
    /\ pc = "awaitChain"
    /\ chainResponse' = "ok"
    /\ rawOptions' \in Chains(MaxOptions)
    /\ qualityFilteredOptions' = qualityFilter(rawOptions', params.option_type)
    /\ strikePercentage' = effectivePercentage(params.strike_percentage)
    /\ allStrikes' = strikeList(qualityFilteredOptions')
    /\ significantStrikes' =
           filterSignificantStrikePrices(currentPrice, strikePercentage',
                                         allStrikes')
    /\ responseData' =
           [option |-> withStrikeIn(qualityFilteredOptions', significantStrikes')]
    /\ pc' = "done"
    /\ UNCHANGED <<token, params, fetches, quoteResponse, quoteLast, currentPrice,
                   thrown, selectVars>>

Next ==
    \/ RejectWithoutToken
    \/ FetchQuote
    \/ QuoteFailed
    \/ QuoteReturned
    \/ ChainFailed
    \/ ChainReturned

Spec == Init /\ [][Next]_vars

(* ------------------------------------------------------------------ *)
(* Properties of the two strike filters                                 *)
(* ------------------------------------------------------------------ *)
\* The call has returned.
Filtered == step \in {"filtered", "refiltered"}

\* s is one of the strikes of the list.
OneOf(s, list) == \E i \in DOMAIN list : list[i] = s

\* C1: every strike filterSignificantStrikePrices returns is one of the
\* strikes it was given.
C1_Subset ==
    Filtered => \A i \in DOMAIN retStrikes : OneOf(retStrikes[i], argStrikes)

\* The filter was given several strikes, kept some and dropped some.
C1_Witness ==
    /\ step = "filtered"
    /\ retStrikes # <<>>
    /\ Len(retStrikes) < Len(argStrikes)

\* The tier table as the specification words it.
\* d = |s - P| / P * 100
PercentAway(s, P) == FMul(FDiv(FAbs(FSub(s, P)), P), n100)

\* s mod N is within 0.01 of 0 or within 0.01 of N
DivisibleBy(s, N) ==
    FLt(FMod(s, N), n0_01) \/ FGt(FMod(s, N), FSub(N, n0_01))

TierTable(P, d, s) ==
    CASE FLe(d, n2) -> TRUE
      [] FGt(d, n2) /\ FLe(d, n5) -> DivisibleBy(s, n2)
      [] FGt(d, n5) /\ FLe(d, n10) /\ FGt(P, n100) -> DivisibleBy(s, n5)
      [] FGt(d, n5) /\ FLe(d, n10) /\ FLe(P, n100) -> FIsInteger(s)
      [] FGt(d, n10) /\ FLe(d, n20) /\ FGt(P, n100) -> DivisibleBy(s, n10)
      [] FGt(d, n10) /\ FLe(d, n20) /\ FLe(P, n100) -> DivisibleBy(s, n5)
      [] FGt(d, n20) /\ FGt(P, n500) -> DivisibleBy(s, n50)
      [] FGt(d, n20) /\ FGt(P, n100) /\ FLe(P, n500) -> DivisibleBy(s, n25)
      [] FGt(d, n20) /\ FLe(P, n100) -> DivisibleBy(s, n10)

PositivePrices == Prices \ {n0}

TierTableOf ==
    Table([P \in PositivePrices |->
        Table([s \in StrikesFor[P] |-> TierTable(P, PercentAway(s, P), s)])])

PercentAwayOf ==
    Table([P \in PositivePrices |->
        Table([s \in StrikesFor[P] |-> PercentAway(s, P)])])

\* s lies within the bounds filterStrikesByPercentage returned.
WithinBounds(s) ==
    FLe(retBounds.lowerBound, s) /\ FLe(s, retBounds.upperBound)

\* C2: a strike given to filterSignificantStrikePrices is returned exactly
\* when it lies within the bounds and the tier table, read at its distance
\* and at the underlying price, keeps it; a strike outside the bounds is
\* never returned.
C2_TierTable ==
    Filtered =>
        \A i \in DOMAIN argStrikes :
            OneOf(argStrikes[i], retStrikes)
                <=> (WithinBounds(argStrikes[i]) /\ TierTableOf[argPrice][argStrikes[i]])

\* A strike more than 20 percent away passed its rounding test and was
\* kept, and another strike within the bounds failed its test.
C2_Witness ==
    /\ step = "filtered"
    /\ \E i \in DOMAIN argStrikes :
           /\ FGt(PercentAwayOf[argPrice][argStrikes[i]], n20)
           /\ OneOf(argStrikes[i], retStrikes)
    /\ \E i \in DOMAIN argStrikes :
           /\ WithinBounds(argStrikes[i])
           /\ ~OneOf(argStrikes[i], retStrikes)

\* The rule of the claim for a strike at exactly 2, 5, 10 or 20 percent, or
\* under an underlying price of exactly 100 or 500.
AtBoundary(P, d) == d \in {n2, n5, n10, n20} \/ P \in {n100, n500}

LowerSideRule(P, d, s) ==
    IF d = n2 THEN TRUE
    ELSE IF d = n5 THEN DivisibleBy(s, n2)
    ELSE IF d = n10 THEN (IF P = n100 \/ FLt(P, n100) THEN FIsInteger(s)
                          ELSE DivisibleBy(s, n5))
    ELSE IF d = n20 THEN (IF P = n100 \/ FLt(P, n100) THEN DivisibleBy(s, n5)
                          ELSE DivisibleBy(s, n10))
    ELSE IF P = n100
    THEN (IF FLt(d, n2) THEN TRUE
          ELSE IF FLt(d, n5) THEN DivisibleBy(s, n2)
          ELSE IF FLt(d, n10) THEN FIsInteger(s)
          ELSE IF FLt(d, n20) THEN DivisibleBy(s, n5)
          ELSE DivisibleBy(s, n10))
    ELSE (IF FLt(d, n2) THEN TRUE
          ELSE IF FLt(d, n5) THEN DivisibleBy(s, n2)
          ELSE IF FLt(d, n10) THEN DivisibleBy(s, n5)
          ELSE IF FLt(d, n20) THEN DivisibleBy(s, n10)
          ELSE DivisibleBy(s, n25))

LowerSideOf ==
    Table([P \in PositivePrices |->
        Table([s \in StrikesFor[P] |-> LowerSideRule(P, PercentAway(s, P), s)])])

\* C3: a strike within the bounds whose distance is exactly 2, 5, 10 or 20
\* percent is kept exactly when the rule of the tier ending at that distance
\* keeps it, and under an underlying price of exactly 100 or 500 a strike is
\* kept exactly when the rule of the band ending at that price keeps it.
C3_LowerSide ==
    Filtered =>
        \A i \in DOMAIN argStrikes :
            (/\ WithinBounds(argStrikes[i])
             /\ AtBoundary(argPrice, PercentAwayOf[argPrice][argStrikes[i]]))
                => (OneOf(argStrikes[i], retStrikes)
                        <=> LowerSideOf[argPrice][argStrikes[i]])

\* A strike at exactly 10 percent that is a whole number but no multiple of
\* 5 was kept: the rule of the tier from 5 to 10 percent, in the band of
\* prices up to 100.
C3_Witness ==
    /\ step = "filtered"
    /\ \E i \in DOMAIN argStrikes :
           /\ PercentAwayOf[argPrice][argStrikes[i]] = n10
           /\ ~DivisibleBy(argStrikes[i], n5)
           /\ OneOf(argStrikes[i], retStrikes)

\* C4: filterSignificantStrikePrices given the strikes it returned, with the
\* same price and percentage, returns them unchanged.
C4_Idempotent == step = "refiltered" => retAgain = retStrikes

\* The second call was given two or more strikes, which the first call had
\* reordered or picked out of a longer list.
C4_Witness ==
    /\ step = "refiltered"
    /\ Len(retStrikes) >= 2
    /\ Len(retStrikes) < Len(argStrikes) \/ retStrikes # argStrikes

\* 2 * P * R / 100
Width(P, R) == FDiv(FMul(FMul(n2, P), R), n100)

WidthOf ==
    Table([P \in PositivePrices |-> Table([R \in Percentages |-> Width(P, R)])])

\* P * (1 - R / 100) and P * (1 + R / 100)
ClaimedBoundsOf ==
    Table([P \in PositivePrices |->
        Table([R \in Percentages |->
            [lowerBound |-> FMul(P, FSub(n1, FDiv(R, n100))),
             upperBound |-> FMul(P, FAdd(n1, FDiv(R, n100)))]])])

\* What rounding may add to or take from the width: P * 2^-49.
RoundingOf == Table([P \in PositivePrices |-> FMul(P, Fin(FALSE, <<1>>, -49))])

\* upperBound - lowerBound, as the numbers returned give it
ReturnedWidth == FSub(retBounds.upperBound, retBounds.lowerBound)

\* C5 as the specification states it: the bounds are P * (1 - R / 100) and
\* P * (1 + R / 100), they enclose P, and upperBound - lowerBound is equal
\* to 2 * P * R / 100.
C5_ExactWidth ==
    Filtered =>
        /\ retBounds = ClaimedBoundsOf[argPrice][argPercentage]
        /\ FLe(retBounds.lowerBound, argPrice)
        /\ FLe(argPrice, retBounds.upperBound)
        /\ ReturnedWidth = WidthOf[argPrice][argPercentage]

\* C5: the bounds filterStrikesByPercentage returns are P * (1 - R / 100)
\* and P * (1 + R / 100), they enclose P, and upperBound - lowerBound
\* differs from 2 * P * R / 100 by no more than P * 2^-49.
C5_Bounds ==
    Filtered =>
        /\ retBounds = ClaimedBoundsOf[argPrice][argPercentage]
        /\ FLe(retBounds.lowerBound, argPrice)
        /\ FLe(argPrice, retBounds.upperBound)
        /\ FLe(FAbs(FSub(ReturnedWidth, WidthOf[argPrice][argPercentage])),
               RoundingOf[argPrice])

\* The bounds of 10 percent around 556 were returned, and their difference
\* is not the number 2 * 556 * 10 / 100.
C5_Witness ==
    /\ step = "filtered"
    /\ argPrice = NumOf[55600]
    /\ argPercentage = n10
    /\ ReturnedWidth # WidthOf[argPrice][argPercentage]

(* ------------------------------------------------------------------ *)
(* Properties of the find-options-chain handler                         *)
(* ------------------------------------------------------------------ *)
Returned == pc = "done"

\* The contracts of the response.
Response == responseData.option

\* The contracts of the chain as OptionData.
Mapped == [i \in 1..Len(rawOptions) |-> mapOption(rawOptions[i])]

\* C6: every contract of the response has a volume above 0, a bid above
\* 0.10 and an ask above 0.10, and the requested option type when the
\* request names call or put.
C6_Quality ==
    Returned =>
        \A i \in DOMAIN Response :
            /\ FGt(Response[i].volume, n0)
            /\ FGt(Response[i].bid, NumOf[10])
            /\ FGt(Response[i].ask, NumOf[10])
            /\ params.option_type \in {"call", "put"}
                   => Response[i].option_type = params.option_type

\* The chain held a put with a bid of exactly 0.10 at a strike for which the
\* response returns another contract, the request asked for both types, and
\* the put is not in the response.
C6_Witness ==
    /\ Returned
    /\ params.option_type = "both"
    /\ \E i \in DOMAIN rawOptions, j \in DOMAIN Response :
           /\ rawOptions[i].bid = NumOf[10]
           /\ rawOptions[i].strike = Response[j].strike
           /\ \A k \in DOMAIN Response : Response[k].symbol # rawOptions[i].symbol

\* A contract passes the quality filter of the request.
Passes(option) ==
    /\ FGt(option.volume, n0)
    /\ FGt(option.bid, NumOf[10])
    /\ FGt(option.ask, NumOf[10])
    /\ params.option_type \in {"call", "put"} => option.option_type = params.option_type

Passing == SelectSeq(Mapped, Passes)

StrikesOfPassing == [i \in 1..Len(Passing) |-> Passing[i].strike]

\* The strikes the selector keeps of those of the passing contracts.
Selected == filterSignificantStrikePrices(currentPrice, strikePercentage, StrikesOfPassing)

\* C7: the response is the list of the contracts passing the quality filter
\* whose strike the selector keeps, the selector being given the strikes of
\* the passing contracts and no others, the price of the quote and the
\* effective percentage.
C7_Response ==
    Returned =>
        /\ allStrikes = StrikesOfPassing
        /\ significantStrikes = Selected
        /\ Response = SelectSeq(Passing, LAMBDA option : OneOf(option.strike, Selected))

\* Of two passing contracts one was returned and the other, its strike
\* failing the selector, was not.
C7_Witness ==
    /\ Returned
    /\ Len(Passing) = 2
    /\ Len(Response) = 1

C9_SchemaDefault ==
    (Returned /\ params.strike_percentage = undefined) =>
        Response =
            withStrikeIn(qualityFilteredOptions,
                         filterSignificantStrikePrices(
                             currentPrice, effectivePercentage(SchemaDefault), allStrikes))

\* C10: when the quote response or the chain response is an error the
\* request has failed and has returned no payload, and after an error of the
\* quote response no chain fetch has been issued.
C10_Failure ==
    /\ (quoteResponse = "error" \/ chainResponse = "error") =>
           (pc = "failed" /\ thrown # "" /\ responseData = NoResponse)
    /\ quoteResponse = "error" => fetches = <<"quote">>

\* The quote arrived and the chain fetch then failed.
C10_Witness ==
    /\ quoteResponse = "ok"
    /\ chainResponse = "error"
    /\ pc = "failed"

(* ------------------------------------------------------------------ *)
(* Properties of testSignificantStrikePrices                            *)
(* ------------------------------------------------------------------ *)
Tested == step = "tested"

\* The distance in percent of each strike of the test from its price.
TestAwayOf ==
    Table([n \in TestFirst..TestLast |-> PercentAway(TestStrikes[n], TestPrice)])

\* The strikes of the test up to 2 percent away, those more than 2 and up
\* to 5 percent away, and those more than 5 and up to 10 percent away.
Band2 == {n \in TestFirst..TestLast : FLe(TestAwayOf[n], n2)}
Band5 == {n \in TestFirst..TestLast : FGt(TestAwayOf[n], n2) /\ FLe(TestAwayOf[n], n5)}
Band10 == {n \in TestFirst..TestLast : FGt(TestAwayOf[n], n5) /\ FLe(TestAwayOf[n], n10)}

\* The number of the strikes of a band that were returned.
KeptOf(band) == Cardinality({n \in band : OneOf(TestStrikes[n], retStrikes)})

\* C11: with underlying price 556, percentage 10 and the strikes 500 to 610
\* the filter returns every integer from 545 to 567, does not return 500,
\* which lies below the lower bound, returns fewer than 111 strikes, and
\* the fraction of the given strikes it returns falls strictly from the
\* band up to 2 percent to the band from 2 to 5 percent to the band from 5
\* to 10 percent.
C11_Example ==
    Tested =>
        /\ \A n \in 545..567 : OneOf(TestStrikes[n], retStrikes)
        /\ ~OneOf(TestStrikes[500], retStrikes)
        /\ FLt(TestStrikes[500], retBounds.lowerBound)
        /\ Len(retStrikes) < 111
        /\ KeptOf(Band2) * Cardinality(Band5) > KeptOf(Band5) * Cardinality(Band2)
        /\ KeptOf(Band5) * Cardinality(Band10) > KeptOf(Band10) * Cardinality(Band5)

\* The test has run on its 111 strikes and returned some of each band.
C11_Witness ==
    /\ Tested
    /\ Len(argStrikes) = 111
    /\ KeptOf(Band2) > 0
    /\ KeptOf(Band5) > 0
    /\ KeptOf(Band10) > 0

(* ------------------------------------------------------------------ *)
(* Properties of the upstream calls of one request                      *)
(* ------------------------------------------------------------------ *)
\* The handler has filtered the chain or returned a payload.
HasFiltered ==
    \/ pc = "done"
    \/ responseData # NoResponse
    \/ qualityFilteredOptions # <<>>
    \/ allStrikes # <<>>
    \/ significantStrikes # <<>>

\* C12: the quote fetch is issued at most once and first, the chain fetch
\* at most once and only when the quote response has arrived with a success
\* status, and the handler filters and returns a payload only when the
\* chain response has arrived with a success status.
C12_Sequential ==
    /\ fetches \in {<<>>, <<"quote">>, <<"quote", "chain">>}
    /\ fetches = <<>> => (quoteResponse = "none" /\ chainResponse = "none")
    /\ fetches = <<"quote">> => chainResponse = "none"
    /\ fetches = <<"quote", "chain">> => quoteResponse = "ok"
    /\ HasFiltered =>
           (fetches = <<"quote", "chain">> /\ quoteResponse = "ok" /\ chainResponse = "ok")

\* Both fetches were issued, both responses arrived with a success status
\* and the handler returned contracts.
C12_Witness ==
    /\ pc = "done"
    /\ fetches = <<"quote", "chain">>
    /\ chainResponse = "ok"
    /\ responseData.option # <<>>

(* ------------------------------------------------------------------ *)
(* Properties of a request whose quote has no last price                *)
(* ------------------------------------------------------------------ *)
\* The quote response arrived with a success status and without a last
\* price.
NoLastPrice == quoteResponse = "ok" /\ quoteLast = undefined

\* C13: when the quote has no last price the underlying price is 0, the
\* request fails only if the chain fetch fails and otherwise returns, the
\* bounds of the selector are 0 and 0, and no contract of the response has
\* a strike above 0.
C13_NoPrice ==
    NoLastPrice =>
        /\ currentPrice = n0
        /\ pc \in {"awaitChain", "done", "failed"}
        /\ pc = "failed" => chainResponse = "error"
        /\ chainResponse = "ok" => Returned
        /\ Returned =>
               /\ filterStrikesByPercentage(currentPrice, strikePercentage)
                      = [lowerBound |-> n0, upperBound |-> n0]
               /\ \A i \in DOMAIN Response : ~FGt(Response[i].strike, n0)

\* The quote had no last price, the chain held contracts of positive
\* strikes that passed the quality filter and no others, and the response
\* is empty.
C13_Witness ==
    /\ NoLastPrice
    /\ Returned
    /\ Len(qualityFilteredOptions) = 2
    /\ \A i \in DOMAIN qualityFilteredOptions :
           FGt(qualityFilteredOptions[i].strike, n0)
    /\ Response = <<>>

(* ------------------------------------------------------------------ *)
(* The strike filter under a wider percentage                           *)
(* ------------------------------------------------------------------ *)
Widened == step = "widened"

\* C14: every strike filterSignificantStrikePrices returns for a price
\* above 0 and a percentage from 0 to 100 is also returned for the same
\* price and strikes and any percentage up to 100 that is no smaller.
C14_Monotone ==
    Widened =>
        /\ FGt(argPrice, n0)
        /\ FLe(n0, argPercentage)
        /\ FLe(argPercentage, widerPercentage)
        /\ FLe(widerPercentage, n100)
        /\ \A i \in DOMAIN retStrikes : OneOf(retStrikes[i], retWider)

\* The wider percentage is larger, and the call returned the strikes
\* returned before and one more.
C14_Witness ==
    /\ Widened
    /\ widerPercentage # argPercentage
    /\ retStrikes # <<>>
    /\ Len(retWider) > Len(retStrikes)

====
